---- MODULE Spec2Model ----
(***************************************************************************)
(* A model of ld-crypto-syntax: the document loaders (utils/loader.ts),    *)
(* the Keypair base class (suite/keypair.ts), the base Cryptosuite and the *)
(* JSON-LD helpers canonizeProof, expandController and includeContext      *)
(* (types/jsonld/proof.ts).                                                *)
(*                                                                         *)
(* Every operation of the library is a single call, so each component has  *)
(* its own specification (SpecLoader, SpecCanon, ...): the variables of    *)
(* the other components stay at their initial value there.                 *)
(***************************************************************************)
EXTENDS Integers, Sequences, FiniteSets, TLC

VARIABLES
    lfn,        \* loader component: the function last called ("none" before any call)
    lurl,       \* its url argument
    lwrapped,   \* the loader handed to extend (a function from urls to outcomes)
    lenv,       \* what fetch and response.json() did during a network call
    lout,       \* the outcome of the call
    linvoked    \* the urls the wrapped loader was invoked with during the call

VARIABLES
    pnode,      \* canonizeProof: the caller's proof object of each of two calls
    pbefore,    \* the fields that object had when canonizeProof was called
    pinput,     \* the object jsonld's canonize received
    pout,       \* the outcome of the call
    pstate,     \* "built" before the call, "canonized" after it
    ploader     \* whether the loader given to both calls resolves the context

VARIABLES
    sop,        \* Cryptosuite: the static method called ("none" before any call)
    sdoc,       \* its document argument
    sopts,      \* its options argument
    sout        \* the outcome of the call

VARIABLES
    cdone,      \* expandController: whether the call was made
    cdoc,       \* its document argument
    cargs,      \* its controller, term and verificationId arguments
    cframed,    \* what jsonld's frame gave back
    cout        \* the outcome of the call

VARIABLES
    xdone,      \* includeContext: whether the call was made
    xdoc,       \* its document argument
    xctx,       \* its context argument
    xres        \* the boolean it returned

VARIABLES
    keypairs,   \* Keypair: the fields of each keypair object
    kargs,      \* the _type argument each keypair was constructed with
    kassigned   \* the fields of each keypair assigned to since its construction

loaderVars == <<lfn, lurl, lwrapped, lenv, lout, linvoked>>
canonVars == <<pnode, pbefore, pinput, pout, pstate, ploader>>
suiteVars == <<sop, sdoc, sopts, sout>>
controllerVars == <<cdone, cdoc, cargs, cframed, cout>>
contextVars == <<xdone, xdoc, xctx, xres>>
keypairVars == <<keypairs, kargs, kassigned>>

vars == <<loaderVars, canonVars, suiteVars, controllerVars, contextVars, keypairVars>>

-----------------------------------------------------------------------------
(* Bounds *)

\* urls outside the built-in context table
MaxOtherUrls == 2
\* distinct documents a remote source can hold
MaxDocs == 2
\* distinct nonce values of a proof
MaxNonces == 2
\* distinct proofValue values of a proof
MaxProofValues == 2
\* verification methods a controller document can list
MaxMethods == 2
\* length of an @context array
MaxContexts == 2
\* distinct identifiers (and controllers) a keypair can be given
MaxIds == 1
\* distinct revocation dates a keypair can be given
MaxDates == 1

-----------------------------------------------------------------------------
(* context/constants.ts *)

CREDENTIAL_CONTEXT_V1_URL == "https://www.w3.org/2018/credentials/v1"
CREDENTIAL_CONTEXT_V2_URL == "https://www.w3.org/ns/credentials/v2"
SECURITY_CONTEXT_V1_URL == "https://w3id.org/security/v1"
SECURITY_CONTEXT_V2_URL == "https://w3id.org/security/v2"
SECURITY_PROOF_URL == "https://w3id.org/security#proof"
SECURITY_SIGNATURE_URL == "https://w3id.org/security#signature"

\* the value of a property nobody defined
undefined == "undefined"

\* import * as CONTEXT_URL from "../context/constants.ts": the module's exports
CONTEXT_URL ==
    [ CREDENTIAL_CONTEXT_V1_URL |-> CREDENTIAL_CONTEXT_V1_URL,
      CREDENTIAL_CONTEXT_V2_URL |-> CREDENTIAL_CONTEXT_V2_URL,
      SECURITY_CONTEXT_V1_URL |-> SECURITY_CONTEXT_V1_URL,
      SECURITY_CONTEXT_V2_URL |-> SECURITY_CONTEXT_V2_URL,
      SECURITY_PROOF_URL |-> SECURITY_PROOF_URL,
      SECURITY_SIGNATURE_URL |-> SECURITY_SIGNATURE_URL ]

\* namespace.name: a name the module does not export reads as undefined
Member(namespace, name) ==
    IF name \in DOMAIN namespace THEN namespace[name] ELSE undefined

-----------------------------------------------------------------------------
(* Outcomes of a call: a value, or a failure (a throw or a rejected promise) *)

Resolved(v) == [kind |-> "resolved", payload |-> v]
Thrown(e) == [kind |-> "thrown", payload |-> e]

\* new BasicError(code, where, message): detail is what the message interpolates
BasicError(code, where, detail) ==
    [class |-> "BasicError", code |-> code, where |-> where, detail |-> detail]

\* an error raised by someone else's code (fetch, json, a custom loader)
ForeignError(name) ==
    [class |-> name, code |-> "none", where |-> "none", detail |-> "none"]

-----------------------------------------------------------------------------
(* utils/loader.ts *)

OtherUrls == {"https://example.org/doc/" \o ToString(i) : i \in 1..MaxOtherUrls}

\* the keys of the built-in table: the four context urls the library ships
BuiltinUrls ==
    { CREDENTIAL_CONTEXT_V1_URL, CREDENTIAL_CONTEXT_V2_URL,
      SECURITY_CONTEXT_V1_URL, SECURITY_CONTEXT_V2_URL }

Urls == BuiltinUrls \cup OtherUrls

\* the static table of context/map.ts: one immutable document per built-in url
URL_CONTEXT_MAP == [u \in BuiltinUrls |-> <<"builtin", u>>]

\* documents held by remote sources
RemoteBodies == {<<"remote", ToString(i)>> : i \in 1..MaxDocs}

\* what a caller-supplied loader can do with one url
CustomOutcomes ==
    { Resolved([documentUrl |-> "https://example.org/served", document |-> d]) :
        d \in RemoteBodies }
    \cup { Thrown(ForeignError("LoaderFailure")) }

\* a caller-supplied loader is any function from urls to outcomes
Loaders == [Urls -> CustomOutcomes]

\* what fetch(url) and response.json() can do
FetchEnvs ==
    [ fetchError : {"none", "TypeError"},
      jsonError : {"none", "SyntaxError"},
      body : RemoteBodies ]

NoEnv == [fetchError |-> "none", jsonError |-> "none", body |-> <<"remote", "0">>]

\* the body of the try block of network: await fetch(url); await response.json()
networkTry(url, env) ==
    IF env.fetchError # "none" THEN Thrown(ForeignError(env.fetchError))
    ELSE IF env.jsonError # "none" THEN Thrown(ForeignError(env.jsonError))
    ELSE Resolved([contextUrl |-> url, documentUrl |-> url, document |-> env.body])

\* mutant: the catch clause rethrows what it caught
networkRethrow(url, env) == networkTry(url, env)

network(url, env) ==
    LET r == networkTry(url, env)
    IN  IF r.kind = "thrown"
        THEN Thrown(BasicError("NETWORK_CONNECTION_ERROR", "loader#defaultLoader", url))
        ELSE r

\* mutant: the no-op loader reports a network failure
fallbackAsNetworkError(url) ==
    Thrown(BasicError("NETWORK_CONNECTION_ERROR", "loader#defaultLoader", url))

fallback(url) ==
    Thrown(BasicError("DOCUMENT_NOT_FOUND_ERROR", "loader#defaultLoader", url))

\* fallback as a loader value, to be handed to extend
fallbackLoader == [u \in Urls |-> fallback(u)]

\* no loader was handed to extend
NoLoader == <<>>

\* mutant: the wrapped loader is asked first, the table only serves its failures
extendLoaderFirst(loader, url) ==
    LET r == loader[url]
    IN  IF r.kind = "thrown" /\ url \in DOMAIN URL_CONTEXT_MAP
        THEN [ outcome |-> Resolved([documentUrl |-> url, document |-> URL_CONTEXT_MAP[url]]),
               invoked |-> <<url>> ]
        ELSE [outcome |-> r, invoked |-> <<url>>]

\* mutant: a failure of the wrapped loader is retried once and then replaced
extendRetry(loader, url) ==
    IF url \in DOMAIN URL_CONTEXT_MAP
    THEN [ outcome |-> Resolved([documentUrl |-> url, document |-> URL_CONTEXT_MAP[url]]),
           invoked |-> <<>> ]
    ELSE IF loader[url].kind = "thrown"
         THEN [ outcome |-> Thrown(BasicError("DOCUMENT_NOT_FOUND_ERROR", "loader#extend", url)),
                invoked |-> <<url, url>> ]
         ELSE [outcome |-> loader[url], invoked |-> <<url>>]

\* extend(loader)(url): the outcome, and the urls loader was invoked with
extend(loader, url) ==
    IF url \in DOMAIN URL_CONTEXT_MAP
    THEN [ outcome |-> Resolved([documentUrl |-> url, document |-> URL_CONTEXT_MAP[url]]),
           invoked |-> <<>> ]
    ELSE [outcome |-> loader[url], invoked |-> <<url>>]

\* export const basic: Loader = extend(fallback)
basic(url) == extend(fallbackLoader, url)

\* Each call is independent of every other (the loaders keep no state), so a
\* behaviour is one call: from no call made to its outcome.

\* a caller wraps a loader of its own and calls the result
CallExtend ==
    /\ lfn = "none"
    /\ \E loader \in Loaders, url \in Urls :
           /\ lfn' = "extend"
           /\ lurl' = url
           /\ lwrapped' = loader
           /\ lenv' = NoEnv
           /\ lout' = extend(loader, url).outcome
           /\ linvoked' = extend(loader, url).invoked
    /\ UNCHANGED <<canonVars, suiteVars, controllerVars, contextVars, keypairVars>>

CallBasic ==
    /\ lfn = "none"
    /\ \E url \in Urls :
           /\ lfn' = "basic"
           /\ lurl' = url
           /\ lwrapped' = fallbackLoader
           /\ lenv' = NoEnv
           /\ lout' = basic(url).outcome
           /\ linvoked' = basic(url).invoked
    /\ UNCHANGED <<canonVars, suiteVars, controllerVars, contextVars, keypairVars>>

CallFallback ==
    /\ lfn = "none"
    /\ \E url \in Urls :
           /\ lfn' = "fallback"
           /\ lurl' = url
           /\ lwrapped' = NoLoader
           /\ lenv' = NoEnv
           /\ lout' = fallback(url)
           /\ linvoked' = <<>>
    /\ UNCHANGED <<canonVars, suiteVars, controllerVars, contextVars, keypairVars>>

CallNetwork ==
    /\ lfn = "none"
    /\ \E url \in Urls, env \in FetchEnvs :
           /\ lfn' = "network"
           /\ lurl' = url
           /\ lwrapped' = NoLoader
           /\ lenv' = env
           /\ lout' = network(url, env)
           /\ linvoked' = <<>>
    /\ UNCHANGED <<canonVars, suiteVars, controllerVars, contextVars, keypairVars>>

-----------------------------------------------------------------------------
(* types/jsonld/proof.ts: the Proof node and canonizeProof *)

\* the properties of a Proof this model carries, in code-point order
ProofFields ==
    <<"@context", "nonce", "proofPurpose", "proofValue", "type", "verificationMethod">>

absent == "absent"

\* an object with the properties of r that are not absent
Node(r) == [k \in {f \in DOMAIN r : r[f] # absent} |-> r[k]]

NonceValues == {"nonce-" \o ToString(i) : i \in 1..MaxNonces}
ProofValues == {"z" \o ToString(i) : i \in 1..MaxProofValues}

\* the proofs a caller can build: type and proofPurpose are required properties
ProofNodes ==
    { Node(("@context" :> c) @@
           [ nonce |-> n, proofPurpose |-> pp, proofValue |-> pv,
             type |-> "DataIntegrityProof", verificationMethod |-> vm ]) :
        c \in {absent, SECURITY_CONTEXT_V1_URL, SECURITY_CONTEXT_V2_URL},
        n \in {absent} \cup NonceValues,
        pp \in {"assertionMethod", "authentication"},
        pv \in {absent} \cup ProofValues,
        vm \in {absent, "did:example:alice#key-1"} }

NoNode == Node([type |-> absent])

\* object[key] = value
SetProperty(object, key, value) ==
    [k \in DOMAIN object \cup {key} |-> IF k = key THEN value ELSE object[k]]

\* delete object[key]
DeleteProperty(object, key) == [k \in DOMAIN object \ {key} |-> object[k]]

\* jsonld.canonize: deterministic N-Quads of its input, one statement per
\* property in a fixed order; it fails when a document it needs does not load
JsonldCanonize(input, loads) ==
    IF ~loads THEN Thrown(ForeignError("jsonld.LoadDocumentError"))
    ELSE LET Present(k) == k \in DOMAIN input
             ks == SelectSeq(ProofFields, Present)
         IN  Resolved([i \in 1..Len(ks) |-> <<ks[i], input[ks[i]]>>])

\* canonize(input, options): the outcome, and the object handed to jsonld
canonize(input, loads) ==
    [outcome |-> JsonldCanonize(input, loads), input |-> input]

\* mutant: proofValue is left on the proof
canonizeProofKeepsValue(proof, loads) ==
    LET p1 == SetProperty(proof, "@context", Member(CONTEXT_URL, "SECURITY_V2"))
        p2 == DeleteProperty(p1, "nonce")
        c == canonize(p2, loads)
    IN  [proof |-> p2, input |-> c.input, outcome |-> c.outcome]

\* canonizeProof(proof, loader): the three statements act on the caller's
\* object, and that same object is what canonize receives
canonizeProof(proof, loads) ==
    LET p1 == SetProperty(proof, "@context", Member(CONTEXT_URL, "SECURITY_V2"))
        p2 == DeleteProperty(p1, "nonce")
        p3 == DeleteProperty(p2, "proofValue")
        c == canonize(p3, loads)
    IN  [proof |-> p3, input |-> c.input, outcome |-> c.outcome]

\* two calls, to compare what they hand to jsonld
Calls == {"first", "second"}

CallCanonizeProof ==
    /\ \E c \in Calls :
           /\ pstate[c] = "built"
           /\ LET r == canonizeProof(pnode[c], ploader)
              IN  /\ pbefore' = [pbefore EXCEPT ![c] = pnode[c]]
                  /\ pnode' = [pnode EXCEPT ![c] = r.proof]
                  /\ pinput' = [pinput EXCEPT ![c] = r.input]
                  /\ pout' = [pout EXCEPT ![c] = r.outcome]
           /\ pstate' = [pstate EXCEPT ![c] = "canonized"]
    /\ UNCHANGED ploader
    /\ UNCHANGED <<loaderVars, suiteVars, controllerVars, contextVars, keypairVars>>

-----------------------------------------------------------------------------
(* types/jsonld/proof.ts: the base Cryptosuite *)

DataIntegrityError(code, where) ==
    [class |-> "DataIntegrityError", code |-> code, where |-> where, detail |-> "none"]

PlainDocuments == {[id |-> "urn:example:doc-" \o ToString(i)] : i \in 1..MaxDocs}

\* a document with the proof that secures it (absent: NoNode)
SecuredDocuments ==
    { [id |-> d.id, proof |-> p] : d \in PlainDocuments, p \in ProofNodes \cup {NoNode} }

CreateOptions == [proof : ProofNodes, loader : {absent, "basic"}]
VerifyOptions == [loader : {absent, "basic"}]

\* mutant: the base class hands the proof options back as the proof
createProofEcho(inputDocument, options) == Resolved(options.proof)

createProof(inputDocument, options) ==
    Thrown(DataIntegrityError("NOT_IMPLEMENTED_ERROR", "Cryptosuite.createProof"))

verifyProof(securedDocument, options) ==
    Thrown(DataIntegrityError("NOT_IMPLEMENTED_ERROR", "Cryptosuite.verifyProof"))

CallCreateProof ==
    /\ sop = "none"
    /\ \E d \in PlainDocuments, o \in CreateOptions :
           /\ sop' = "createProof"
           /\ sdoc' = d
           /\ sopts' = o
           /\ sout' = createProof(d, o)
    /\ UNCHANGED <<loaderVars, canonVars, controllerVars, contextVars, keypairVars>>

CallVerifyProof ==
    /\ sop = "none"
    /\ \E d \in SecuredDocuments, o \in VerifyOptions :
           /\ sop' = "verifyProof"
           /\ sdoc' = d
           /\ sopts' = o
           /\ sout' = verifyProof(d, o)
    /\ UNCHANGED <<loaderVars, canonVars, controllerVars, contextVars, keypairVars>>

-----------------------------------------------------------------------------
(* types/jsonld/proof.ts: expandController *)

ControllerIds == {"did:example:alice", "did:example:bob"}
Terms == {"assertionMethod", "authentication"}
MethodIds == {"did:example:alice#key-" \o ToString(i) : i \in 1..MaxMethods}

\* a controller document: one node, listing method ids under each relationship
ControllerDocuments == [id : ControllerIds, methods : [Terms -> SUBSET MethodIds]]

ControllerArgs == [controller : ControllerIds, term : Terms, verificationId : MethodIds]

\* the node with the given id lists the given method under the given term
Listed(document, controller, term, verificationId) ==
    /\ document.id = controller
    /\ verificationId \in document.methods[term]

null == [null |-> TRUE]

\* jsonld.frame(document, {"@context", id, [term]: {"@embed": "@never", id}}):
\* the matching node, with the reference that matched; with no match, either
\* nothing or an object that holds the frame's @context alone
JsonldFrame(document, controller, term, verificationId) ==
    IF Listed(document, controller, term, verificationId)
    THEN { [context |-> Member(CONTEXT_URL, "SECURITY_V2"), id |-> controller,
            term |-> term, listed |-> verificationId] }
    ELSE { null, [context |-> Member(CONTEXT_URL, "SECURITY_V2")] }

\* new Error(message): no code, no class of its own; detail is what the
\* message interpolates
PlainError(detail) ==
    [class |-> "Error", code |-> "none", where |-> "none", detail |-> detail]

\* expandController, from the point frame has answered
expandController(framed, controller) ==
    IF framed = null
    THEN Thrown(PlainError(controller))
    ELSE Resolved(framed)

CallExpandController ==
    /\ ~cdone
    /\ \E d \in ControllerDocuments, a \in ControllerArgs :
         \E framed \in JsonldFrame(d, a.controller, a.term, a.verificationId) :
           /\ cdone' = TRUE
           /\ cdoc' = d
           /\ cargs' = a
           /\ cframed' = framed
           /\ cout' = expandController(framed, a.controller)
    /\ UNCHANGED <<loaderVars, canonVars, suiteVars, contextVars, keypairVars>>

-----------------------------------------------------------------------------
(* types/jsonld/proof.ts: includeContext *)

ContextUrls == BuiltinUrls

RECURSIVE SeqsUpTo(_, _)
SeqsUpTo(S, n) ==
    IF n = 0 THEN {<<>>}
    ELSE LET shorter == SeqsUpTo(S, n - 1)
         IN  shorter \cup {Append(q, x) : q \in shorter, x \in S}

\* document["@context"]: undefined, one url, an array of urls, or an inline
\* context definition (an object)
ContextValues ==
    { [is |-> "undefined"], [is |-> "object"] }
    \cup { [is |-> "string", string |-> u] : u \in ContextUrls }
    \cup { [is |-> "array", items |-> q] : q \in SeqsUpTo(ContextUrls, MaxContexts) }

\* context === fromContext, context being a string
StrictEquals(context, fromContext) ==
    fromContext.is = "string" /\ fromContext.string = context

\* Array.prototype.includes: scan from the first element
RECURSIVE includes(_, _)
includes(items, x) ==
    IF items = <<>> THEN FALSE
    ELSE IF Head(items) = x THEN TRUE
    ELSE includes(Tail(items), x)

\* mutant: only the first element of the array is compared
includeContextFirstOnly(document, context) ==
    LET fromContext == document.context
    IN  IF StrictEquals(context, fromContext) THEN TRUE
        ELSE IF fromContext.is = "array"
        THEN fromContext.items # <<>> /\ Head(fromContext.items) = context
        ELSE FALSE

includeContext(document, context) ==
    LET fromContext == document.context
    IN  IF StrictEquals(context, fromContext) THEN TRUE
        ELSE IF fromContext.is = "array" THEN includes(fromContext.items, context)
        ELSE FALSE

CallIncludeContext ==
    /\ ~xdone
    /\ \E c \in ContextValues, u \in ContextUrls :
           /\ xdone' = TRUE
           /\ xdoc' = [context |-> c]
           /\ xctx' = u
           /\ xres' = includeContext([context |-> c], u)
    /\ UNCHANGED <<loaderVars, canonVars, suiteVars, controllerVars, keypairVars>>

-----------------------------------------------------------------------------
(* suite/keypair.ts *)

KeypairObjects == {"k1", "k2"}
Types == {"Ed25519VerificationKey2020", "Multikey"}
IdValues == {undefined} \cup {"urn:example:id-" \o ToString(i) : i \in 1..MaxIds}
ControllerValues == {undefined} \cup {"did:example:c" \o ToString(i) : i \in 1..MaxIds}
DateValues == {undefined} \cup {"2024-01-0" \o ToString(i) : i \in 1..MaxDates}

NoKeypair ==
    [ constructed |-> FALSE, type |-> undefined, id |-> undefined,
      controller |-> undefined, revoked |-> undefined ]

\* mutant: the constructor stores the identifier as the type
KeypairSwapped(type, id, controller, revoked) ==
    [ constructed |-> TRUE, type |-> id, id |-> id,
      controller |-> controller, revoked |-> revoked ]

\* constructor(_type, _id, _controller, _revoked)
Keypair(type, id, controller, revoked) ==
    [ constructed |-> TRUE, type |-> type, id |-> id,
      controller |-> controller, revoked |-> revoked ]

\* keypair.id = id
AssignId(keypair, id) == [keypair EXCEPT !.id = id]

\* keypair.controller = controller
AssignController(keypair, controller) == [keypair EXCEPT !.controller = controller]

\* keypair.revoked = revoked
AssignRevoked(keypair, revoked) == [keypair EXCEPT !.revoked = revoked]

Construct ==
    /\ \E k \in KeypairObjects, t \in Types, i \in IdValues,
          c \in ControllerValues, r \in DateValues :
           /\ ~keypairs[k].constructed
           /\ keypairs' = [keypairs EXCEPT ![k] = Keypair(t, i, c, r)]
           /\ kargs' = [kargs EXCEPT ![k] = t]
    /\ UNCHANGED kassigned
    /\ UNCHANGED <<loaderVars, canonVars, suiteVars, controllerVars, contextVars>>

SetId ==
    /\ \E k \in KeypairObjects, i \in IdValues :
           /\ keypairs[k].constructed
           /\ keypairs' = [keypairs EXCEPT ![k] = AssignId(@, i)]
           /\ kassigned' = [kassigned EXCEPT ![k] = @ \cup {"id"}]
    /\ UNCHANGED kargs
    /\ UNCHANGED <<loaderVars, canonVars, suiteVars, controllerVars, contextVars>>

SetController ==
    /\ \E k \in KeypairObjects, c \in ControllerValues :
           /\ keypairs[k].constructed
           /\ keypairs' = [keypairs EXCEPT ![k] = AssignController(@, c)]
           /\ kassigned' = [kassigned EXCEPT ![k] = @ \cup {"controller"}]
    /\ UNCHANGED kargs
    /\ UNCHANGED <<loaderVars, canonVars, suiteVars, controllerVars, contextVars>>

SetRevoked ==
    /\ \E k \in KeypairObjects, r \in DateValues :
           /\ keypairs[k].constructed
           /\ keypairs' = [keypairs EXCEPT ![k] = AssignRevoked(@, r)]
           /\ kassigned' = [kassigned EXCEPT ![k] = @ \cup {"revoked"}]
    /\ UNCHANGED kargs
    /\ UNCHANGED <<loaderVars, canonVars, suiteVars, controllerVars, contextVars>>

-----------------------------------------------------------------------------
(* Specifications: one per component, the other components idle *)

\* no loader was called yet
InitLoader ==
    /\ lfn = "none"
    /\ lurl = "none"
    /\ lwrapped = NoLoader
    /\ lenv = NoEnv
    /\ lout = Resolved("none")
    /\ linvoked = <<>>
    /\ pnode = [c \in Calls |-> NoNode]
    /\ pbefore = [c \in Calls |-> NoNode]
    /\ pinput = [c \in Calls |-> NoNode]
    /\ pout = [c \in Calls |-> Resolved("none")]
    /\ pstate = [c \in Calls |-> "none"]
    /\ ploader = TRUE
    /\ sop = "none"
    /\ sdoc = [id |-> "none"]
    /\ sopts = [loader |-> absent]
    /\ sout = Resolved("none")
    /\ cdone = FALSE
    /\ cdoc = [id |-> "none"]
    /\ cargs = [controller |-> "none"]
    /\ cframed = null
    /\ cout = Resolved("none")
    /\ xdone = FALSE
    /\ xdoc = [context |-> [is |-> "undefined"]]
    /\ xctx = "none"
    /\ xres = FALSE
    /\ keypairs = [k \in KeypairObjects |-> NoKeypair]
    /\ kargs = [k \in KeypairObjects |-> undefined]
    /\ kassigned = [k \in KeypairObjects |-> {}]

NextLoader == CallExtend \/ CallBasic \/ CallFallback \/ CallNetwork

SpecLoader == InitLoader /\ [][NextLoader]_vars

\* two callers have built their proofs; the loader they pass resolves or not
InitCanon ==
    /\ lfn = "none"
    /\ lurl = "none"
    /\ lwrapped = NoLoader
    /\ lenv = NoEnv
    /\ lout = Resolved("none")
    /\ linvoked = <<>>
    /\ pnode \in [Calls -> ProofNodes]
    /\ pbefore = [c \in Calls |-> NoNode]
    /\ pinput = [c \in Calls |-> NoNode]
    /\ pout = [c \in Calls |-> Resolved("none")]
    /\ pstate = [c \in Calls |-> "built"]
    /\ ploader \in BOOLEAN
    /\ sop = "none"
    /\ sdoc = [id |-> "none"]
    /\ sopts = [loader |-> absent]
    /\ sout = Resolved("none")
    /\ cdone = FALSE
    /\ cdoc = [id |-> "none"]
    /\ cargs = [controller |-> "none"]
    /\ cframed = null
    /\ cout = Resolved("none")
    /\ xdone = FALSE
    /\ xdoc = [context |-> [is |-> "undefined"]]
    /\ xctx = "none"
    /\ xres = FALSE
    /\ keypairs = [k \in KeypairObjects |-> NoKeypair]
    /\ kargs = [k \in KeypairObjects |-> undefined]
    /\ kassigned = [k \in KeypairObjects |-> {}]

NextCanon == CallCanonizeProof

SpecCanon == InitCanon /\ [][NextCanon]_vars

\* no method of the base Cryptosuite was called yet
InitSuite ==
    /\ lfn = "none"
    /\ lurl = "none"
    /\ lwrapped = NoLoader
    /\ lenv = NoEnv
    /\ lout = Resolved("none")
    /\ linvoked = <<>>
    /\ pnode = [c \in Calls |-> NoNode]
    /\ pbefore = [c \in Calls |-> NoNode]
    /\ pinput = [c \in Calls |-> NoNode]
    /\ pout = [c \in Calls |-> Resolved("none")]
    /\ pstate = [c \in Calls |-> "none"]
    /\ ploader = TRUE
    /\ sop = "none"
    /\ sdoc = [id |-> "none"]
    /\ sopts = [loader |-> absent]
    /\ sout = Resolved("none")
    /\ cdone = FALSE
    /\ cdoc = [id |-> "none"]
    /\ cargs = [controller |-> "none"]
    /\ cframed = null
    /\ cout = Resolved("none")
    /\ xdone = FALSE
    /\ xdoc = [context |-> [is |-> "undefined"]]
    /\ xctx = "none"
    /\ xres = FALSE
    /\ keypairs = [k \in KeypairObjects |-> NoKeypair]
    /\ kargs = [k \in KeypairObjects |-> undefined]
    /\ kassigned = [k \in KeypairObjects |-> {}]

NextSuite == CallCreateProof \/ CallVerifyProof

SpecSuite == InitSuite /\ [][NextSuite]_vars

\* expandController was not called yet
InitController ==
    /\ lfn = "none"
    /\ lurl = "none"
    /\ lwrapped = NoLoader
    /\ lenv = NoEnv
    /\ lout = Resolved("none")
    /\ linvoked = <<>>
    /\ pnode = [c \in Calls |-> NoNode]
    /\ pbefore = [c \in Calls |-> NoNode]
    /\ pinput = [c \in Calls |-> NoNode]
    /\ pout = [c \in Calls |-> Resolved("none")]
    /\ pstate = [c \in Calls |-> "none"]
    /\ ploader = TRUE
    /\ sop = "none"
    /\ sdoc = [id |-> "none"]
    /\ sopts = [loader |-> absent]
    /\ sout = Resolved("none")
    /\ cdone = FALSE
    /\ cdoc = [id |-> "none"]
    /\ cargs = [controller |-> "none"]
    /\ cframed = null
    /\ cout = Resolved("none")
    /\ xdone = FALSE
    /\ xdoc = [context |-> [is |-> "undefined"]]
    /\ xctx = "none"
    /\ xres = FALSE
    /\ keypairs = [k \in KeypairObjects |-> NoKeypair]
    /\ kargs = [k \in KeypairObjects |-> undefined]
    /\ kassigned = [k \in KeypairObjects |-> {}]

NextController == CallExpandController

SpecController == InitController /\ [][NextController]_vars

\* includeContext was not called yet
InitContext ==
    /\ lfn = "none"
    /\ lurl = "none"
    /\ lwrapped = NoLoader
    /\ lenv = NoEnv
    /\ lout = Resolved("none")
    /\ linvoked = <<>>
    /\ pnode = [c \in Calls |-> NoNode]
    /\ pbefore = [c \in Calls |-> NoNode]
    /\ pinput = [c \in Calls |-> NoNode]
    /\ pout = [c \in Calls |-> Resolved("none")]
    /\ pstate = [c \in Calls |-> "none"]
    /\ ploader = TRUE
    /\ sop = "none"
    /\ sdoc = [id |-> "none"]
    /\ sopts = [loader |-> absent]
    /\ sout = Resolved("none")
    /\ cdone = FALSE
    /\ cdoc = [id |-> "none"]
    /\ cargs = [controller |-> "none"]
    /\ cframed = null
    /\ cout = Resolved("none")
    /\ xdone = FALSE
    /\ xdoc = [context |-> [is |-> "undefined"]]
    /\ xctx = "none"
    /\ xres = FALSE
    /\ keypairs = [k \in KeypairObjects |-> NoKeypair]
    /\ kargs = [k \in KeypairObjects |-> undefined]
    /\ kassigned = [k \in KeypairObjects |-> {}]

NextContext == CallIncludeContext

SpecContext == InitContext /\ [][NextContext]_vars

\* no keypair was constructed yet
InitKeypair ==
    /\ lfn = "none"
    /\ lurl = "none"
    /\ lwrapped = NoLoader
    /\ lenv = NoEnv
    /\ lout = Resolved("none")
    /\ linvoked = <<>>
    /\ pnode = [c \in Calls |-> NoNode]
    /\ pbefore = [c \in Calls |-> NoNode]
    /\ pinput = [c \in Calls |-> NoNode]
    /\ pout = [c \in Calls |-> Resolved("none")]
    /\ pstate = [c \in Calls |-> "none"]
    /\ ploader = TRUE
    /\ sop = "none"
    /\ sdoc = [id |-> "none"]
    /\ sopts = [loader |-> absent]
    /\ sout = Resolved("none")
    /\ cdone = FALSE
    /\ cdoc = [id |-> "none"]
    /\ cargs = [controller |-> "none"]
    /\ cframed = null
    /\ cout = Resolved("none")
    /\ xdone = FALSE
    /\ xdoc = [context |-> [is |-> "undefined"]]
    /\ xctx = "none"
    /\ xres = FALSE
    /\ keypairs = [k \in KeypairObjects |-> NoKeypair]
    /\ kargs = [k \in KeypairObjects |-> undefined]
    /\ kassigned = [k \in KeypairObjects |-> {}]

NextKeypair == Construct \/ SetId \/ SetController \/ SetRevoked

SpecKeypair == InitKeypair /\ [][NextKeypair]_vars

-----------------------------------------------------------------------------
(* Claims *)

IsCoded(outcome, class, code) ==
    /\ outcome.kind = "thrown"
    /\ outcome.payload.class = class
    /\ outcome.payload.code = code

\* C1: a url of the built-in table is answered by extend(L) with the table's
\* document under that url, whatever L is, and L is not invoked.
C1_BuiltinServedFromTable ==
    (lfn \in {"extend", "basic"} /\ lurl \in DOMAIN URL_CONTEXT_MAP) =>
        /\ lout = Resolved([documentUrl |-> lurl, document |-> URL_CONTEXT_MAP[lurl]])
        /\ linvoked = <<>>

\* a built-in url was asked of a wrapper whose loader would have failed for it
C1_Witness ==
    /\ lfn = "extend"
    /\ lurl \in DOMAIN URL_CONTEXT_MAP
    /\ lwrapped[lurl].kind = "thrown"
    /\ lout.kind = "resolved"

\* C2: for a url outside the built-in table extend(L) invokes L once, with
\* that url, and its outcome is L's outcome, a failure included.
C2_OthersDelegated ==
    (lfn = "extend" /\ lurl \notin DOMAIN URL_CONTEXT_MAP) =>
        /\ linvoked = <<lurl>>
        /\ lout = lwrapped[lurl]

\* a url outside the table was asked and the wrapped loader failed
C2_Witness ==
    /\ lfn = "extend"
    /\ lurl \notin DOMAIN URL_CONTEXT_MAP
    /\ lout.kind = "thrown"

\* the properties of a proof other than nonce and proofValue
OtherProperties(proof) == [k \in DOMAIN proof \ {"nonce", "proofValue"} |-> proof[k]]

\* C3: what canonizeProof hands to jsonld holds neither nonce nor proofValue,
\* and two proofs that agree on all their other properties are handed over as
\* the same input and give the same output.
C3_StrippedBeforeCanonize ==
    /\ \A c \in Calls :
         pstate[c] = "canonized" => DOMAIN pinput[c] \cap {"nonce", "proofValue"} = {}
    /\ ( /\ \A c \in Calls : pstate[c] = "canonized"
         /\ OtherProperties(pbefore["first"]) = OtherProperties(pbefore["second"]) )
       => /\ pinput["first"] = pinput["second"]
          /\ pout["first"] = pout["second"]

\* two proofs that differ in proofValue alone were both canonized
C3_Witness ==
    /\ \A c \in Calls : pstate[c] = "canonized" /\ "proofValue" \in DOMAIN pbefore[c]
    /\ OtherProperties(pbefore["first"]) = OtherProperties(pbefore["second"])
    /\ pbefore["first"]["proofValue"] # pbefore["second"]["proofValue"]
    /\ pout["first"].kind = "resolved"

\* C4: createProof and verifyProof of the base Cryptosuite fail with a
\* NOT_IMPLEMENTED_ERROR, whatever the document and the options.
C4_BaseSuiteNotImplemented ==
    sop \in {"createProof", "verifyProof"} =>
        IsCoded(sout, "DataIntegrityError", "NOT_IMPLEMENTED_ERROR")

\* verifyProof was called on a document whose proof carries a proofValue
C4_Witness ==
    /\ sop = "verifyProof"
    /\ "proofValue" \in DOMAIN sdoc.proof
    /\ sout.kind = "thrown"

\* C5 as claimed: expandController fails with ControllerNotFoundError whenever
\* the controller does not list the method under the term, and returns a
\* document only when it does.
C5_UnlistedMethodFails ==
    cdone =>
        IF Listed(cdoc, cargs.controller, cargs.term, cargs.verificationId)
        THEN cout.kind = "resolved"
        ELSE /\ cout.kind = "thrown"
             /\ \/ cout.payload.class = "ControllerNotFoundError"
                \/ cout.payload.code = "CONTROLLER_NOT_FOUND_ERROR"

\* C6 as claimed: once canonizeProof has returned, the caller's proof has the
\* properties and values it had before the call.
C6_CallerProofUntouched ==
    \A c \in Calls :
        (pstate[c] = "canonized" /\ pout[c].kind = "resolved") => pnode[c] = pbefore[c]

\* C7: includeContext returns true exactly when the url is the document's
\* @context or an element of the array that is its @context.
C7_IncludeContextExact ==
    xdone =>
        ( xres <=>
            \/ xdoc.context.is = "string" /\ xdoc.context.string = xctx
            \/ /\ xdoc.context.is = "array"
               /\ \E i \in DOMAIN xdoc.context.items : xdoc.context.items[i] = xctx )

\* the url was found as the last element of an array, not as its first
C7_Witness ==
    /\ xdone
    /\ xdoc.context.is = "array"
    /\ Len(xdoc.context.items) >= 2
    /\ xdoc.context.items[1] # xctx
    /\ xdoc.context.items[Len(xdoc.context.items)] = xctx
    /\ xres

\* C8: fallback fails with DOCUMENT_NOT_FOUND_ERROR for every url; basic
\* resolves the urls of the built-in table and fails with
\* DOCUMENT_NOT_FOUND_ERROR for every other url.
C8_BasicResolvesBuiltinOnly ==
    /\ lfn = "fallback" => IsCoded(lout, "BasicError", "DOCUMENT_NOT_FOUND_ERROR")
    /\ lfn = "basic" =>
         IF lurl \in DOMAIN URL_CONTEXT_MAP
         THEN lout.kind = "resolved"
         ELSE IsCoded(lout, "BasicError", "DOCUMENT_NOT_FOUND_ERROR")

\* basic was asked a url outside the table
C8_Witness ==
    /\ lfn = "basic"
    /\ lurl \notin DOMAIN URL_CONTEXT_MAP
    /\ lout.kind = "thrown"

\* C9: network fails with NETWORK_CONNECTION_ERROR when fetch or json fails,
\* with nothing else; otherwise it returns the parsed body under the url as
\* documentUrl and contextUrl.
C9_NetworkErrorsWrapped ==
    lfn = "network" =>
        /\ lout.kind = "thrown" =>
             IsCoded(lout, "BasicError", "NETWORK_CONNECTION_ERROR")
        /\ IF lenv.fetchError # "none" \/ lenv.jsonError # "none"
           THEN lout.kind = "thrown"
           ELSE lout = Resolved([ contextUrl |-> lurl, documentUrl |-> lurl,
                                  document |-> lenv.body ])

\* the fetch succeeded and the body did not parse
C9_Witness ==
    /\ lfn = "network"
    /\ lenv.fetchError = "none"
    /\ lenv.jsonError # "none"
    /\ lout.kind = "thrown"

\* C10: a keypair's type is the _type its constructor was given, before and
\* after any assignment to id, controller or revoked; it has none before.
C10_TypeSetAtConstruction ==
    \A k \in KeypairObjects :
        /\ keypairs[k].constructed => keypairs[k].type = kargs[k]
        /\ ~keypairs[k].constructed => keypairs[k].type = undefined

\* a keypair whose id, controller and revoked were all assigned after construction
C10_Witness ==
    \E k \in KeypairObjects :
        /\ keypairs[k].constructed
        /\ kassigned[k] = {"id", "controller", "revoked"}
        /\ keypairs[k].id # undefined
        /\ keypairs[k].type \in Types

\* C11 as claimed: the object canonizeProof hands to jsonld has @context equal
\* to https://w3id.org/security/v2, whatever @context the caller's proof had.
C11_ContextForcedToSecurityV2 ==
    \A c \in Calls :
        pstate[c] = "canonized" =>
            /\ "@context" \in DOMAIN pinput[c]
            /\ pinput[c]["@context"] = SECURITY_CONTEXT_V2_URL

====
